---- MODULE Spec2Model ----
(***************************************************************************)
(* Fluffy.Bot (src/main.py): a chat bot that stores scheduled direct       *)
(* messages in one table and delivers the due ones from a 15 second poll   *)
(* loop.  The model covers the Store helpers, the time conversion, the     *)
(* poll loop and the slash-command handlers.  Every await of a coroutine   *)
(* is a point where another coroutine may run, so every handler is cut     *)
(* into one action per Store call or send.                                 *)
(*                                                                         *)
(* Instants are whole seconds counted from 00:00 UTC of day 0.  A time     *)
(* string is a sequence of one-character strings.                          *)
(***************************************************************************)
EXTENDS Integers, Sequences, FiniteSets, TLC

VARIABLES
    now,            \* the current instant (UTC seconds)
    tz,             \* the configured time zone (main.py:20)
    db_pool,        \* main.py:25
    http_session,   \* main.py:26
    created,        \* how many pools (main.py:43) and sessions (main.py:152) were made
    loop_running,   \* scheduler_loop.is_running()
    ready,          \* position of each on_ready coroutine, in order of their READY
    store,          \* the schedules table: a sequence of rows, id = index
    poll,           \* position of the process_due coroutine
    cancel,         \* position of the slash_cancel coroutine
    sched,          \* position of the slash_scheduledm coroutine
    outbox,         \* per schedule id: the contents successfully sent by the poll loop
    reply,          \* the follow-up sent by the step just taken, if any
    faults,         \* Store calls that have raised so far
    probe           \* inputs and result of the last pure helper applied

vars == <<now, tz, db_pool, http_session, created, loop_running, ready, store, poll,
          cancel, sched, outbox, reply, faults, probe>>

None == "None"

\* ------------------------------------------------------------------ bounds

MaxRecords == 2        \* rows the table may hold
MaxAdvance == 2        \* minutes the clock may advance
MaxStoreFaults == 2    \* Store calls that may raise
MaxRecordsStoreErr == 1 \* rows the table may hold when Store calls may raise
MaxRows == 3           \* rows of the tables the due query is applied to alone
\* process_due fetches with limit=30 (main.py:94).  The batch is scaled down:
\* BatchLimit holds the whole table, SmallBatch is smaller than the table, so
\* that more records are due than one tick takes.
BatchLimit == 2
MaxOnReady == 2        \* READY events of the gateway, the first included
MaxRecordsStartup == 1 \* records created while on_ready events repeat
SmallBatch == 1

\* ------------------------------------------------------------------ time

SecondsPerMinute == 60
SecondsPerHour == 3600
SecondsPerDay == 86400

\* A pytz zone with at most one change of UTC offset: the offset is `before`
\* for instants earlier than `at` and `after` from `at` on.
Riyadh == [before |-> 10800, at |-> 0, after |-> 10800]
SpringForward == [before |-> -18000, at |-> 2 * 86400 + 7 * 3600, after |-> -14400]
FallBack == [before |-> -14400, at |-> 2 * 86400 + 6 * 3600, after |-> -18000]
DEFAULT_TZ == Riyadh
Zones == {Riyadh, SpringForward, FallBack}

utcoffset(z, utc) == IF utc < z.at THEN z.before ELSE z.after

\* An aware datetime is its wall-clock reading and the offset attached to it.
Aware(wall, off) == [wall |-> wall, off |-> off]
Instant(dt) == dt.wall - dt.off

\* utc_dt.astimezone(tz)
astimezone(z, utc) == Aware(utc + utcoffset(z, utc), utcoffset(z, utc))

\* tz.localize(naive), is_dst=False: the offset under which the reading exists;
\* a reading that exists under both offsets or under none gets standard time.
localize(z, wall) ==
    LET fits == {o \in {z.before, z.after} : utcoffset(z, wall - o) = o}
        std == IF z.before <= z.after THEN z.before ELSE z.after
    IN  IF Cardinality(fits) = 1 THEN Aware(wall, CHOOSE o \in fits : TRUE)
        ELSE Aware(wall, std)

Digits == <<"0", "1", "2", "3", "4", "5", "6", "7", "8", "9">>
IsDigit(c) == \E d \in 1..10 : Digits[d] = c
DigitVal(c) == (CHOOSE d \in 1..10 : Digits[d] = c) - 1
TwoDigits(n) == <<Digits[(n \div 10) + 1], Digits[(n % 10) + 1]>>

RECURSIVE strip(_)
strip(s) ==
    IF s = <<>> THEN s
    ELSE IF Head(s) = " " THEN strip(Tail(s))
    ELSE IF s[Len(s)] = " " THEN strip(SubSeq(s, 1, Len(s) - 1))
    ELSE s

\* Position of the first occurrence of c in s, 0 when there is none.
find(s, c) ==
    IF \E i \in 1..Len(s) : s[i] = c
    THEN CHOOSE i \in 1..Len(s) : s[i] = c /\ \A j \in 1..(i - 1) : s[j] # c
    ELSE 0

upper(c) == CASE c = "a" -> "A" [] c = "p" -> "P" [] c = "m" -> "M" [] OTHER -> c

\* A pattern for the hour that takes any two digits.
MatchI_two_digits(h) == Len(h) = 2 /\ IsDigit(h[1]) /\ IsDigit(h[2])

\* %I : 1[0-2] | 0[1-9] | [1-9]
MatchI(h) ==
    \/ Len(h) = 2 /\ h[1] = "1" /\ h[2] \in {"0", "1", "2"}
    \/ Len(h) = 2 /\ h[1] = "0" /\ IsDigit(h[2]) /\ h[2] # "0"
    \/ Len(h) = 1 /\ IsDigit(h[1]) /\ h[1] # "0"

\* %M : [0-5]\d | \d
MatchM(m) ==
    \/ Len(m) = 2 /\ m[1] \in {"0", "1", "2", "3", "4", "5"} /\ IsDigit(m[2])
    \/ Len(m) = 1 /\ IsDigit(m[1])

\* %p : am | pm, in either case
MatchP(p) == Len(p) = 2 /\ upper(p[1]) \in {"A", "P"} /\ upper(p[2]) = "M"

RECURSIVE ToNumber(_)
ToNumber(ds) ==
    IF ds = <<>> THEN 0 ELSE 10 * ToNumber(SubSeq(ds, 1, Len(ds) - 1)) + DigitVal(ds[Len(ds)])

\* What a raised ValueError leaves in place of a result.
ValueError == [ok |-> FALSE]

\* datetime.strptime(s, "%I:%M %p").time(): the time of day, or ValueError.
strptime(s) ==
    LET colon == find(s, ":")
        h == SubSeq(s, 1, colon - 1)
        rest == SubSeq(s, colon + 1, Len(s))
        space == find(rest, " ")
        m == SubSeq(rest, 1, space - 1)
        p == strip(SubSeq(rest, space + 1, Len(rest)))
    IN  IF colon = 0 \/ space = 0 THEN ValueError
        ELSE IF ~(MatchI(h) /\ MatchM(m) /\ MatchP(p)) THEN ValueError
        ELSE [ok |-> TRUE,
              hour |-> (ToNumber(h) % 12) + (IF upper(p[1]) = "P" THEN 12 ELSE 0),
              minute |-> ToNumber(m)]

\* main.py:121-136.  `utc` is the instant datetime.now(tz) reads.
parse_time_12h_to_utc(time_str, utc, z) ==
    LET parsed_time == strptime(strip(time_str))
        now_local == astimezone(z, utc)
        midnight == (now_local.wall \div SecondsPerDay) * SecondsPerDay
        run_local == localize(z, midnight + parsed_time.hour * SecondsPerHour
                                          + parsed_time.minute * SecondsPerMinute)
        next_local == IF Instant(run_local) <= Instant(now_local)
                      THEN Aware(run_local.wall + SecondsPerDay, run_local.off)
                      ELSE run_local
    IN  IF ~parsed_time.ok THEN ValueError ELSE [ok |-> TRUE, utc |-> Instant(next_local)]

\* strftime("%I:%M %p") of a wall-clock reading
strftime(wall) ==
    LET hour == (wall % SecondsPerDay) \div SecondsPerHour
        minute == (wall % SecondsPerHour) \div SecondsPerMinute
        I == IF hour % 12 = 0 THEN 12 ELSE hour % 12
    IN  TwoDigits(I) \o <<":">> \o TwoDigits(minute) \o <<" ">>
          \o (IF hour < 12 THEN <<"A", "M">> ELSE <<"P", "M">>)

\* main.py:138-140: the local date (as a day number) and "%I:%M %p".
pretty_time_local(utc_dt, z) ==
    LET local == astimezone(z, utc_dt)
    IN  [date |-> local.wall \div SecondsPerDay, clock |-> strftime(local.wall)]

\* ------------------------------------------------------------------ inputs

Str(h, m, p) == TwoDigits(h) \o <<":">> \o TwoDigits(m) \o <<" ">> \o p
AM == <<"A", "M">>
PM == <<"P", "M">>

\* Strings that are no 12-hour time: "25:99", an hour of 13, a minute of 60, and
\* a time without its AM/PM marker.
InvalidTimeStrings ==
    {<<"2", "5", ":", "9", "9">>, Str(13, 0, PM), Str(2, 60, PM),
     <<"0", "2", ":", "3", "0">>}

\* The scheduledm requests: a text due after one minute, a file due after two,
\* and the requests whose time is no 12-hour time.
Request(time, message, file) ==
    [user |-> 7, time |-> time, message |-> message, file |-> file]
CoreRequests ==
    {Request(Str(12, 0, AM), "hi", None),
     Request(Str(12, 1, AM), None, "http://cdn/f.png")}
      \cup {Request(t, "hi", None) : t \in InvalidTimeStrings}

\* 23:59:00 of day 1 in Riyadh
StartInstant == SecondsPerDay + 20 * SecondsPerHour + 59 * SecondsPerMinute
ClockStep == SecondsPerMinute

\* ------------------------------------------------------------------ Store

Statuses == {"pending", "sent", "failed", "canceled"}

Min(a, b) == IF a <= b THEN a ELSE b

\* main.py:47-53: INSERT ... RETURNING id; status defaults to 'pending'.
add_schedule(st, user_id, run_at_utc, message, attachment_url) ==
    Append(st, [id |-> Len(st) + 1, user_id |-> user_id, message |-> message,
                attachment_url |-> attachment_url, run_at |-> run_at_utc,
                status |-> "pending"])

\* A WHERE clause without the condition on the status.
Due_any_status(st, t) == {i \in 1..Len(st) : st[i].run_at <= t}

\* A WHERE clause that takes the failed rows up again.
Due_retries_failed(st, t) ==
    {i \in 1..Len(st) : st[i].status \in {"pending", "failed"} /\ st[i].run_at <= t}

\* A WHERE clause without the condition on run_at.
Due_any_time(st, t) == {i \in 1..Len(st) : st[i].status = "pending"}

\* WHERE status='pending' AND run_at <= now()
Due(st, t) == {i \in 1..Len(st) : st[i].status = "pending" /\ st[i].run_at <= t}

\* ORDER BY run_at ASC: every ordering of the rows `ids` that ascends in run_at
\* (rows of equal run_at come in any order).
RECURSIVE OrderByRunAt(_, _)
OrderByRunAt(st, ids) ==
    IF ids = {} THEN {<<>>}
    ELSE UNION {{<<st[m]>> \o rest : rest \in OrderByRunAt(st, ids \ {m})} :
                  m \in {i \in ids : \A j \in ids : st[i].run_at <= st[j].run_at}}

\* main.py:55-61: the possible results of the query at instant t.
fetch_due(st, t, limit) ==
    {SubSeq(rows, 1, Min(limit, Len(rows))) : rows \in OrderByRunAt(st, Due(st, t))}

\* An UPDATE that also drops the payload of the row.
mark_sent_clears_payload(st, schedule_id, status) ==
    [i \in 1..Len(st) |->
        IF st[i].id = schedule_id
        THEN [st[i] EXCEPT !.status = status, !.message = None, !.attachment_url = None]
        ELSE st[i]]

\* main.py:63-65: UPDATE schedules SET status=$1 WHERE id=$2
mark_sent(st, schedule_id, status) ==
    [i \in 1..Len(st) |->
        IF st[i].id = schedule_id THEN [st[i] EXCEPT !.status = status] ELSE st[i]]

\* main.py:67-69
get_all_schedules(st) == OrderByRunAt(st, 1..Len(st))

\* main.py:71-73
get_schedule(st, schedule_id) ==
    IF \E i \in 1..Len(st) : st[i].id = schedule_id
    THEN [found |-> TRUE, row |-> st[CHOOSE i \in 1..Len(st) : st[i].id = schedule_id]]
    ELSE [found |-> FALSE]

\* The update without its condition on the current status.
cancel_schedule_unconditional(st, schedule_id) ==
    [i \in 1..Len(st) |->
        IF st[i].id = schedule_id THEN [st[i] EXCEPT !.status = "canceled"] ELSE st[i]]

\* main.py:75-78: UPDATE ... SET status='canceled' WHERE id=$1 AND status='pending'
cancel_schedule(st, schedule_id) ==
    [i \in 1..Len(st) |->
        IF st[i].id = schedule_id /\ st[i].status = "pending"
        THEN [st[i] EXCEPT !.status = "canceled"] ELSE st[i]]

\* ------------------------------------------------------------------ state

Idle == [pc |-> "idle"]
NoReply == [cmd |-> None, kind |-> None, info |-> None]
Reply(cmd, kind, info) == [cmd |-> cmd, kind |-> kind, info |-> info]
\* The handler ended with an exception and sent no follow-up.
Unanswered(cmd) == Reply(cmd, "unanswered", None)
NoProbe == [op |-> None]

\* The module's globals as main.py:20-26 leave them, and an empty table.
Constructed ==
    /\ db_pool = None
    /\ http_session = None
    /\ created = [pools |-> 0, sessions |-> 0]
    /\ loop_running = FALSE
    /\ ready = <<"start">>
    /\ store = <<>>
    /\ poll = [pc |-> "idle", rows |-> <<>>]
    /\ cancel = Idle
    /\ sched = Idle
    /\ outbox = [i \in 1..MaxRecords |-> <<>>]
    /\ reply = NoReply
    /\ faults = 0
    /\ probe = NoProbe

Init ==
    /\ now = StartInstant
    /\ tz = DEFAULT_TZ
    /\ Constructed

\* The clock moves on between any two steps.
AdvanceClock ==
    /\ now < StartInstant + MaxAdvance * ClockStep
    /\ now' = now + ClockStep
    /\ reply' = NoReply
    /\ UNCHANGED <<tz, db_pool, http_session, created, loop_running, ready, store, poll,
                   cancel, sched, outbox, faults, probe>>

\* ------------------------------------------------------------------ startup

\* main.py:143-145: the gateway reports READY once more (a reconnect with a new
\* session) and another on_ready starts, whatever the earlier ones are doing.
on_ready(cap) ==
    /\ Len(ready) < cap
    /\ ready' = Append(ready, "start")
    /\ reply' = NoReply
    /\ UNCHANGED <<now, tz, db_pool, http_session, created, loop_running, store, poll,
                   cancel, sched, outbox, faults, probe>>

\* main.py:144-150: after tree.sync(), init_db() is entered when there is no pool.
on_ready_sync ==
    /\ \E k \in 1..Len(ready) :
         /\ ready[k] = "start"
         /\ ready' = [ready EXCEPT ![k] = IF db_pool = None THEN "create_pool"
                                          ELSE "session"]
    /\ reply' = NoReply
    /\ UNCHANGED <<now, tz, db_pool, http_session, created, loop_running, store, poll,
                   cancel, sched, outbox, faults, probe>>

\* main.py:43: create_pool returns a new pool and the global is set to it.
init_db_pool ==
    /\ \E k \in 1..Len(ready) :
         /\ ready[k] = "create_pool"
         /\ ready' = [ready EXCEPT ![k] = "session"]
    /\ db_pool' = "pool"
    /\ created' = [created EXCEPT !.pools = @ + 1]
    /\ reply' = NoReply
    /\ UNCHANGED <<now, tz, http_session, loop_running, store, poll,
                   cancel, sched, outbox, faults, probe>>

\* main.py:44-45, 151-155: the table exists; a session is made when there is
\* none, and the loop is started when it is not running.
on_ready_start ==
    /\ \E k \in 1..Len(ready) :
         /\ ready[k] = "session"
         /\ ready' = [ready EXCEPT ![k] = "done"]
    /\ http_session' = IF http_session = None THEN "session" ELSE http_session
    /\ created' = IF http_session = None THEN [created EXCEPT !.sessions = @ + 1]
                   ELSE created
    /\ loop_running' = TRUE
    /\ reply' = NoReply
    /\ UNCHANGED <<now, tz, db_pool, store, poll,
                   cancel, sched, outbox, faults, probe>>

\* ------------------------------------------------------------------ poll loop

Row == Head(poll.rows)

\* main.py:95, after the row at hand is done: the next row, or the tick ends.
NextRow ==
    IF Len(poll.rows) > 1 THEN [pc |-> "row", rows |-> Tail(poll.rows)]
    ELSE [pc |-> "idle", rows |-> <<>>]

\* A tick without the guard, its timer armed from the first READY on: with no
\* pool, fetch_due is entered and raises on db_pool.acquire (main.py:56).
scheduler_loop_unguarded(limit) ==
    /\ poll.pc = "idle"
    /\ IF db_pool = None
       THEN poll' = poll /\ faults' = faults + 1
       ELSE /\ \E rows \in fetch_due(store, now, limit) :
                 poll' = IF rows = <<>> THEN poll ELSE [pc |-> "row", rows |-> rows]
            /\ faults' = faults
    /\ reply' = NoReply
    /\ UNCHANGED <<now, tz, db_pool, http_session, created, loop_running, ready, store,
                   cancel, sched, outbox, probe>>

\* A tick whose guard is the wrong way round.
scheduler_loop_guard_inverted(limit) ==
    /\ loop_running
    /\ poll.pc = "idle"
    /\ IF db_pool # None
       THEN poll' = poll
       ELSE \E rows \in fetch_due(store, now, limit) :
              poll' = IF rows = <<>> THEN poll ELSE [pc |-> "row", rows |-> rows]
    /\ reply' = NoReply
    /\ UNCHANGED <<now, tz, db_pool, http_session, created, loop_running, ready, store,
                   cancel, sched, outbox, faults, probe>>

\* main.py:114-118, 94: one tick; with a pool, the due rows are fetched, at most
\* `limit` of them.
scheduler_loop(limit) ==
    /\ loop_running
    /\ poll.pc = "idle"
    /\ IF db_pool = None
       THEN poll' = poll
       ELSE \E rows \in fetch_due(store, now, limit) :
              poll' = IF rows = <<>> THEN poll ELSE [pc |-> "row", rows |-> rows]
    /\ reply' = NoReply
    /\ UNCHANGED <<now, tz, db_pool, http_session, created, loop_running, ready, store,
                   cancel, sched, outbox, faults, probe>>

\* main.py:101, 109: bot.fetch_user raises; `e` is the exception caught.
fetch_user_fails ==
    /\ poll.pc = "row"
    /\ poll' = [pc |-> "mark_failed", rows |-> poll.rows, e |-> "fetch_user"]
    /\ reply' = NoReply
    /\ UNCHANGED <<now, tz, db_pool, http_session, created, loop_running, ready, store,
                   cancel, sched, outbox, faults, probe>>

\* main.py:102-103, 84-85: the attachment fetch raises.
download_fails ==
    /\ poll.pc = "row"
    /\ Row.attachment_url # None
    /\ poll' = [pc |-> "mark_failed", rows |-> poll.rows, e |-> "download_bytes"]
    /\ reply' = NoReply
    /\ UNCHANGED <<now, tz, db_pool, http_session, created, loop_running, ready, store,
                   cancel, sched, outbox, faults, probe>>

\* main.py:105, 107: user.send raises.
send_fails ==
    /\ poll.pc = "row"
    /\ poll' = [pc |-> "mark_failed", rows |-> poll.rows, e |-> "send"]
    /\ reply' = NoReply
    /\ UNCHANGED <<now, tz, db_pool, http_session, created, loop_running, ready, store,
                   cancel, sched, outbox, faults, probe>>

\* message or ""
Content(message) == IF message = None THEN "" ELSE message

\* main.py:101-107: the recipient is resolved, the attachment fetched and the
\* message sent.
send_ok ==
    /\ poll.pc = "row"
    /\ outbox' = [outbox EXCEPT ![Row.id] =
                    Append(@, [to |-> Row.user_id, content |-> Content(Row.message),
                               file |-> Row.attachment_url])]
    /\ poll' = [poll EXCEPT !.pc = "mark_sent"]
    /\ reply' = NoReply
    /\ UNCHANGED <<now, tz, db_pool, http_session, created, loop_running, ready, store,
                   cancel, sched, faults, probe>>

\* main.py:108
process_due_mark_sent ==
    /\ poll.pc = "mark_sent"
    /\ store' = mark_sent(store, Row.id, "sent")
    /\ poll' = NextRow
    /\ reply' = NoReply
    /\ UNCHANGED <<now, tz, db_pool, http_session, created, loop_running, ready,
                   cancel, sched, outbox, faults, probe>>

\* An except clause that only logs.
process_due_only_logs ==
    /\ poll.pc = "mark_failed"
    /\ poll' = NextRow
    /\ reply' = NoReply
    /\ UNCHANGED <<now, tz, db_pool, http_session, created, loop_running, ready, store,
                   cancel, sched, outbox, faults, probe>>

\* An except clause that marks the record and lets the exception go on.
process_due_reraises ==
    /\ poll.pc = "mark_failed"
    /\ store' = mark_sent(store, Row.id, "failed")
    /\ poll' = [pc |-> "idle", rows |-> <<>>]
    /\ reply' = NoReply
    /\ UNCHANGED <<now, tz, db_pool, http_session, created, loop_running, ready,
                   cancel, sched, outbox, faults, probe>>

\* main.py:109-112
process_due_mark_failed ==
    /\ poll.pc = "mark_failed"
    /\ store' = mark_sent(store, Row.id, "failed")
    /\ poll' = NextRow
    /\ reply' = NoReply
    /\ UNCHANGED <<now, tz, db_pool, http_session, created, loop_running, ready,
                   cancel, sched, outbox, faults, probe>>

\* ------------------------------------------------------------------ commands

\* main.py:157-169: the instant send; a failed download or send is caught and
\* reported, and the Store is not used.
slash_send ==
    /\ \E ok \in BOOLEAN :
         reply' = Reply("send", IF ok THEN "sent" ELSE "failed", None)
    /\ UNCHANGED <<now, tz, db_pool, http_session, created, loop_running, ready, store, poll,
                   cancel, sched, outbox, faults, probe>>

\* main.py:172-173: the request is acknowledged.  `cap` bounds the table.
slash_scheduledm(requests, cap) ==
    /\ sched.pc = "idle"
    /\ Len(store) < cap
    /\ \E rq \in requests :
         sched' = [pc |-> "parse", time |-> rq.time, user |-> rq.user,
                   message |-> rq.message, file |-> rq.file]
    /\ reply' = NoReply
    /\ UNCHANGED <<now, tz, db_pool, http_session, created, loop_running, ready, store, poll,
                   cancel, outbox, faults, probe>>

\* main.py:174-180
slash_scheduledm_parse ==
    /\ sched.pc = "parse"
    /\ LET run_utc == parse_time_12h_to_utc(sched.time, now, tz)
       IN  IF ~run_utc.ok
           THEN /\ reply' = Reply("scheduledm", "invalid_time", None)
                /\ sched' = Idle
           ELSE /\ reply' = NoReply
                /\ sched' = [pc |-> "insert", run_utc |-> run_utc.utc, user |-> sched.user,
                             message |-> sched.message, attachment_url |-> sched.file]
    /\ UNCHANGED <<now, tz, db_pool, http_session, created, loop_running, ready, store, poll,
                   cancel, outbox, faults, probe>>

\* main.py:181-182
slash_scheduledm_insert ==
    /\ sched.pc = "insert"
    /\ db_pool # None
    /\ store' = add_schedule(store, sched.user, sched.run_utc, sched.message,
                             sched.attachment_url)
    /\ reply' = Reply("scheduledm", "scheduled",
                      [sid |-> Len(store'), at |-> pretty_time_local(sched.run_utc, tz)])
    /\ sched' = Idle
    /\ UNCHANGED <<now, tz, db_pool, http_session, created, loop_running, ready, poll,
                   cancel, outbox, faults, probe>>

\* main.py:185-195
slash_list ==
    /\ db_pool # None
    /\ \E rows \in get_all_schedules(store) :
         reply' = IF rows = <<>> THEN Reply("list", "empty", None)
                  ELSE Reply("list", "listing", None)
    /\ UNCHANGED <<now, tz, db_pool, http_session, created, loop_running, ready, store, poll,
                   cancel, sched, outbox, faults, probe>>

\* main.py:198-206
slash_get ==
    /\ db_pool # None
    /\ \E id \in 1..MaxRecords :
         LET r == get_schedule(store, id)
         IN  reply' = IF ~r.found THEN Reply("get", "not_found", None)
                      ELSE Reply("get", "detail", None)
    /\ UNCHANGED <<now, tz, db_pool, http_session, created, loop_running, ready, store, poll,
                   cancel, sched, outbox, faults, probe>>

\* main.py:209-210: the request is acknowledged.
slash_cancel ==
    /\ cancel.pc = "idle"
    /\ \E id \in 1..MaxRecords : cancel' = [pc |-> "get", id |-> id]
    /\ reply' = NoReply
    /\ UNCHANGED <<now, tz, db_pool, http_session, created, loop_running, ready, store, poll,
                   sched, outbox, faults, probe>>

\* main.py:211-217: the lookup, and the replies that end the handler there.
slash_cancel_get ==
    /\ cancel.pc = "get"
    /\ db_pool # None
    /\ LET r == get_schedule(store, cancel.id)
       IN  IF ~r.found
           THEN reply' = Reply("cancel", "not_found", None) /\ cancel' = Idle
           ELSE IF r.row.status # "pending"
           THEN reply' = Reply("cancel", "already", r.row.status) /\ cancel' = Idle
           ELSE reply' = NoReply /\ cancel' = [pc |-> "update", id |-> cancel.id]
    /\ UNCHANGED <<now, tz, db_pool, http_session, created, loop_running, ready, store, poll,
                   sched, outbox, faults, probe>>

\* main.py:218-219: the conditional update and the confirmation.
slash_cancel_update ==
    /\ cancel.pc = "update"
    /\ db_pool # None
    /\ store' = cancel_schedule(store, cancel.id)
    /\ reply' = Reply("cancel", "canceled", cancel.id)
    /\ cancel' = Idle
    /\ UNCHANGED <<now, tz, db_pool, http_session, created, loop_running, ready, poll,
                   sched, outbox, faults, probe>>

\* ------------------------------------------------------------------ specification

\* Startup, the clock, the rows of a tick and the cancel handler.
Core ==
    \/ AdvanceClock
    \/ on_ready_sync
    \/ init_db_pool
    \/ on_ready_start
    \/ fetch_user_fails
    \/ download_fails
    \/ send_fails
    \/ send_ok
    \/ process_due_mark_sent
    \/ process_due_mark_failed
    \/ slash_scheduledm_parse
    \/ slash_scheduledm_insert
    \/ slash_cancel
    \/ slash_cancel_get
    \/ slash_cancel_update

\* The commands that leave no state behind.
Stateless ==
    \/ slash_send
    \/ slash_list
    \/ slash_get

\* The poll loop and the commands that change the table.
Next ==
    \/ Core
    \/ scheduler_loop(BatchLimit)
    \/ slash_scheduledm(CoreRequests, MaxRecords)

Spec == Init /\ [][Next]_vars

\* ------------------------------------------------------------------ Store failures

\* A Store call raises (connection loss, pool exhaustion, query failure).  The
\* handlers below are the same coroutines at the same awaits, with the call
\* raising instead of returning.

\* main.py:94, 116-118: fetch_due raises; nothing catches it, and the loop task
\* either goes on with its next tick or ends, by the kind of the exception.
fetch_due_raises ==
    /\ faults < MaxStoreFaults
    /\ loop_running
    /\ poll.pc = "idle"
    /\ db_pool # None
    /\ faults' = faults + 1
    /\ \E goes_on \in BOOLEAN : loop_running' = goes_on
    /\ reply' = NoReply
    /\ UNCHANGED <<now, tz, db_pool, http_session, created, ready, store, poll,
                   cancel, sched, outbox, probe>>

\* main.py:108-109: mark_sent(sid, "sent") raises inside the try.
mark_sent_raises ==
    /\ faults < MaxStoreFaults
    /\ db_pool # None
    /\ poll.pc = "mark_sent"
    /\ faults' = faults + 1
    /\ poll' = [pc |-> "mark_failed", rows |-> poll.rows, e |-> "mark_sent"]
    /\ reply' = NoReply
    /\ UNCHANGED <<now, tz, db_pool, http_session, created, loop_running, ready, store,
                   cancel, sched, outbox, probe>>

\* main.py:111: mark_sent(sid, "failed") raises inside the except clause and
\* leaves process_due; the rest of the batch is dropped.
mark_failed_raises ==
    /\ faults < MaxStoreFaults
    /\ db_pool # None
    /\ poll.pc = "mark_failed"
    /\ faults' = faults + 1
    /\ poll' = [pc |-> "idle", rows |-> <<>>]
    /\ \E goes_on \in BOOLEAN : loop_running' = goes_on
    /\ reply' = NoReply
    /\ UNCHANGED <<now, tz, db_pool, http_session, created, ready, store,
                   cancel, sched, outbox, probe>>

\* main.py:181: add_schedule raises and leaves slash_scheduledm.
add_schedule_raises ==
    /\ faults < MaxStoreFaults
    /\ db_pool # None
    /\ sched.pc = "insert"
    /\ faults' = faults + 1
    /\ sched' = Idle
    /\ reply' = Unanswered("scheduledm")
    /\ UNCHANGED <<now, tz, db_pool, http_session, created, loop_running, ready, store, poll,
                   cancel, outbox, probe>>

\* main.py:187: get_all_schedules raises and leaves slash_list.
slash_list_raises ==
    /\ faults < MaxStoreFaults
    /\ db_pool # None
    /\ faults' = faults + 1
    /\ reply' = Unanswered("list")
    /\ UNCHANGED <<now, tz, db_pool, http_session, created, loop_running, ready, store, poll,
                   cancel, sched, outbox, probe>>

\* main.py:200: get_schedule raises and leaves slash_get.
slash_get_raises ==
    /\ faults < MaxStoreFaults
    /\ db_pool # None
    /\ faults' = faults + 1
    /\ reply' = Unanswered("get")
    /\ UNCHANGED <<now, tz, db_pool, http_session, created, loop_running, ready, store, poll,
                   cancel, sched, outbox, probe>>

\* main.py:211: get_schedule raises and leaves slash_cancel.
slash_cancel_get_raises ==
    /\ faults < MaxStoreFaults
    /\ db_pool # None
    /\ cancel.pc = "get"
    /\ faults' = faults + 1
    /\ cancel' = Idle
    /\ reply' = Unanswered("cancel")
    /\ UNCHANGED <<now, tz, db_pool, http_session, created, loop_running, ready, store, poll,
                   sched, outbox, probe>>

\* main.py:218: cancel_schedule raises and leaves slash_cancel.
cancel_schedule_raises ==
    /\ faults < MaxStoreFaults
    /\ db_pool # None
    /\ cancel.pc = "update"
    /\ faults' = faults + 1
    /\ cancel' = Idle
    /\ reply' = Unanswered("cancel")
    /\ UNCHANGED <<now, tz, db_pool, http_session, created, loop_running, ready, store, poll,
                   sched, outbox, probe>>

StoreRaises ==
    \/ fetch_due_raises
    \/ mark_sent_raises
    \/ mark_failed_raises
    \/ add_schedule_raises
    \/ slash_list_raises
    \/ slash_get_raises
    \/ slash_cancel_get_raises
    \/ cancel_schedule_raises

NextStoreErr ==
    \/ Core
    \/ scheduler_loop(BatchLimit)
    \/ slash_scheduledm(CoreRequests, MaxRecordsStoreErr)
    \/ Stateless
    \/ StoreRaises

\* Every command, with a Store whose calls may raise.
SpecStoreErr == Init /\ [][NextStoreErr]_vars

\* ------------------------------------------------------------------ the time conversion alone

\* What the requester means by a time string: hour 1-12, minute, AM or PM.
TimeInput(text, h, m, p) == [text |-> text, h |-> h, m |-> m, p |-> p]
MinuteSamples == {0, 1, 30, 59}
ValidTimeInputs ==
    {TimeInput(Str(h, m, p), h, m, p) : h \in 1..12, m \in MinuteSamples, p \in {AM, PM}}
      \cup {TimeInput(<<"2", ":", "3", "0", " ", "p", "m">>, 2, 30, PM),
            TimeInput(<<" ", "0", "9", ":", "0", "5", " ", " ", "A", "M", " ">>, 9, 5, AM)}

\* Instants of day 1 and day 2, on and off the minute.
NowSamples ==
    {d * SecondsPerDay + hh * SecondsPerHour + mm * SecondsPerMinute + ss :
        d \in 1..2, hh \in 0..23, mm \in {0, 30, 59}, ss \in {0, 30}}

InitTime ==
    /\ now \in NowSamples
    /\ tz \in Zones
    /\ Constructed

\* parse_time_12h_to_utc applied at the current instant.
parse_probe ==
    /\ probe.op = None
    /\ \E s \in ValidTimeInputs :
         probe' = [op |-> "parse", s |-> s, now |-> now,
                   run_utc |-> parse_time_12h_to_utc(s.text, now, tz)]
    /\ UNCHANGED <<now, tz, db_pool, http_session, created, loop_running, ready, store, poll,
                   cancel, sched, outbox, reply, faults>>

\* pretty_time_local applied to the instant parsed (main.py:182).
pretty_probe ==
    /\ probe.op = "parse"
    /\ probe.run_utc.ok
    /\ probe' = [op |-> "pretty", s |-> probe.s, now |-> probe.now,
                 run_utc |-> probe.run_utc,
                 shown |-> pretty_time_local(probe.run_utc.utc, tz)]
    /\ UNCHANGED <<now, tz, db_pool, http_session, created, loop_running, ready, store, poll,
                   cancel, sched, outbox, reply, faults>>

NextTime == parse_probe \/ pretty_probe

TimeSpec == InitTime /\ [][NextTime]_vars

\* ------------------------------------------------------------------ the due query alone

\* Rows of every status, due before, at and after the start of the clock.
RowSamples ==
    [run_at : {StartInstant - ClockStep, StartInstant, StartInstant + ClockStep},
     status : Statuses]
\* Tables of up to `rows` rows.
StoreSamples(rows) ==
    UNION {{[i \in 1..n |->
               [id |-> i, user_id |-> 7, message |-> "hi", attachment_url |-> None,
                run_at |-> f[i].run_at, status |-> f[i].status]] :
              f \in [1..n -> RowSamples]} : n \in 0..rows}

InitFetch ==
    /\ now \in {StartInstant, StartInstant + ClockStep}
    /\ tz = DEFAULT_TZ
    /\ db_pool = "pool"
    /\ http_session = "session"
    /\ created = [pools |-> 1, sessions |-> 1]
    /\ loop_running = TRUE
    /\ ready = <<"done">>
    /\ store \in StoreSamples(MaxRows)
    /\ poll = [pc |-> "idle", rows |-> <<>>]
    /\ cancel = Idle
    /\ sched = Idle
    /\ outbox = [i \in 1..MaxRows |-> <<>>]
    /\ reply = NoReply
    /\ faults = 0
    /\ probe = NoProbe

\* fetch_due applied with a limit.
fetch_due_probe ==
    /\ \E limit \in 0..(MaxRows + 1) :
         \E rows \in fetch_due(store, now, limit) :
            probe' = [op |-> "fetch_due", limit |-> limit, rows |-> rows]
    /\ UNCHANGED <<now, tz, db_pool, http_session, created, loop_running, ready, store, poll,
                   cancel, sched, outbox, reply, faults>>

NextFetch == fetch_due_probe

FetchSpec == InitFetch /\ [][NextFetch]_vars

\* ------------------------------------------------------------------ the poll loop kept firing

\* One request with a valid time, carrying both a message and a file, so that
\* every outcome of a dispatch (main.py:101-107) is possible for every record.
ValidRequests == {Request(Str(12, 0, AM), "hi", "http://cdn/f.png")}

\* main.py:101-107: resolution, fetch and send of the row at hand end one way
\* or another.
Dispatch == fetch_user_fails \/ download_fails \/ send_fails \/ send_ok

NextLive ==
    \/ AdvanceClock
    \/ on_ready_sync
    \/ init_db_pool
    \/ on_ready_start
    \/ scheduler_loop(SmallBatch)
    \/ Dispatch
    \/ process_due_mark_sent
    \/ process_due_mark_failed
    \/ slash_scheduledm(ValidRequests, MaxRecords)
    \/ slash_scheduledm_parse
    \/ slash_scheduledm_insert
    \/ slash_cancel
    \/ slash_cancel_get
    \/ slash_cancel_update

\* Startup runs to its end, the timer of tasks.loop keeps firing the tick
\* (main.py:114), and every await of process_due returns or raises.
LiveSpec ==
    /\ Init
    /\ [][NextLive]_vars
    /\ WF_vars(on_ready_sync)
    /\ WF_vars(init_db_pool)
    /\ WF_vars(on_ready_start)
    /\ WF_vars(scheduler_loop(SmallBatch))
    /\ WF_vars(Dispatch)
    /\ WF_vars(process_due_mark_sent)
    /\ WF_vars(process_due_mark_failed)

\* ------------------------------------------------------------------ every command

\* Every command and the poll loop, the requests valid and the Store calls
\* returning.
NextCommands ==
    \/ Core
    \/ scheduler_loop(BatchLimit)
    \/ slash_scheduledm(ValidRequests, MaxRecords)
    \/ Stateless

CommandSpec == Init /\ [][NextCommands]_vars

\* ------------------------------------------------------------------ READY more than once

NextStartup ==
    \/ Core
    \/ on_ready(MaxOnReady)
    \/ scheduler_loop(BatchLimit)
    \/ slash_scheduledm(ValidRequests, MaxRecordsStartup)

\* The gateway may report READY again at any moment (main.py:143-144).
StartupSpec == Init /\ [][NextStartup]_vars

\* ------------------------------------------------------------------ claims

Terminal == {"sent", "failed", "canceled"}
Ids == 1..Len(store)

\* C1: a status changes only from pending to sent, failed or canceled; once a
\* record is sent, failed or canceled no later step changes its status.
C1_NoTransitionOutOfTerminal ==
    [][\A i \in Ids : store[i].status \in Terminal => store'[i].status = store[i].status]_vars

\* C2: when a cancel request and a delivery race on one record, it never happens
\* that the message is delivered and the cancel succeeds too (the record set to
\* canceled, or the requester told it was canceled).
C2_NeverSentAndCanceled ==
    \A i \in Ids :
        outbox[i] # <<>> =>
            /\ store[i].status # "canceled"
            /\ ~(reply.kind = "canceled" /\ reply.info = i)

\* C6: a scheduledm request whose time string is no valid 12-hour time ends with
\* the validation reply and leaves the Store as it was.
C6_InvalidTimeLeavesStore ==
    [][(sched.pc = "parse" /\ sched.time \in InvalidTimeStrings /\ sched' # sched)
         => /\ store' = store
            /\ sched' = Idle
            /\ reply' = Reply("scheduledm", "invalid_time", None)]_vars

\* A validation reply was sent while the table held a record.
C6_Witness ==
    /\ reply = Reply("scheduledm", "invalid_time", None)
    /\ store # <<>>

\* C7: a cancel request for a record that is already canceled, sent or failed
\* gets the "already <status>" reply, not the confirmation, and no step of the
\* cancel handler changes the status of such a record.
C7_CancelOfTerminalRecord ==
    [][cancel' # cancel =>
         /\ \A i \in Ids : store[i].status \in Terminal => store'[i] = store[i]
         /\ (cancel.pc = "get" /\ cancel.id \in Ids
               /\ store[cancel.id].status \in Terminal)
              => /\ store' = store
                 /\ cancel' = Idle
                 /\ reply' = Reply("cancel", "already", store[cancel.id].status)]_vars

\* The cancel of a canceled record was answered.
C7_Witness == reply = Reply("cancel", "already", "canceled")

\* C9: when the attachment fetch of a due record fails, the tick marks the
\* record failed, and nothing was or is sent for it.
C9_DownloadFailureMarksFailed ==
    [][(poll.pc = "mark_failed" /\ poll.e = "download_bytes" /\ poll' # poll)
         => /\ store'[Row.id].status = "failed"
            /\ outbox'[Row.id] = <<>>]_vars

\* A record with an attachment is failed and undelivered, the tick having caught
\* the failed fetch of another one.
C9_Witness ==
    /\ poll.pc = "mark_failed"
    /\ poll.e = "download_bytes"
    /\ \E i \in Ids : /\ store[i].status = "failed"
                      /\ store[i].attachment_url # None
                      /\ outbox[i] = <<>>

\* C10: every command request ends with a reply to the requester, also when a
\* Store call or the send inside the handler fails.
C10_EveryRequestAnswered == reply.kind # "unanswered"

\* C3: fetch_due(limit) returns exactly the min(limit, number due) earliest
\* records among the pending ones with run_at <= now, in ascending run_at order,
\* and no record that is not pending or whose run_at is in the future.
C3_FetchDueEarliestInOrder ==
    probe.op = "fetch_due" =>
        LET rows == probe.rows
            due == {i \in Ids : store[i].status = "pending" /\ store[i].run_at <= now}
            got == {rows[j].id : j \in 1..Len(rows)}
        IN  /\ Len(rows) = IF probe.limit <= Cardinality(due) THEN probe.limit
                           ELSE Cardinality(due)
            /\ Cardinality(got) = Len(rows)
            /\ got \subseteq due
            /\ \A j \in 1..Len(rows) : rows[j] = store[rows[j].id]
            /\ \A j, k \in 1..Len(rows) : j < k => rows[j].run_at <= rows[k].run_at
            /\ \A i \in due \ got : \A j \in 1..Len(rows) : rows[j].run_at <= store[i].run_at

\* Of two due records the earlier one was returned under a limit of 1, past a
\* record of an earlier run_at that is not pending.
C3_Witness ==
    /\ probe.op = "fetch_due"
    /\ probe.limit = 1
    /\ Len(probe.rows) = 1
    /\ \E i \in Ids : /\ store[i].status = "pending"
                      /\ store[i].run_at <= now
                      /\ store[i].run_at > probe.rows[1].run_at
    /\ \E i \in Ids : store[i].status # "pending" /\ store[i].run_at < probe.rows[1].run_at

\* The hour of the day (0-23) a 12-hour time names.
Hour24(s) == (s.h % 12) + (IF s.p = PM THEN 12 ELSE 0)
LocalWall(utc) == utc + utcoffset(tz, utc)

\* C4: for a valid 12-hour time S and any instant now, the result is after now
\* and reads S on the wall clock of the configured zone: on today's date when S
\* is later than now today, else on tomorrow's.
C4_NextOccurrenceOfWallClock ==
    probe.op \in {"parse", "pretty"} =>
        LET s == probe.s
            tod == Hour24(s) * SecondsPerHour + s.m * SecondsPerMinute
            today == LocalWall(probe.now) \div SecondsPerDay
            day == IF tod > LocalWall(probe.now) % SecondsPerDay THEN today ELSE today + 1
        IN  /\ probe.run_utc.ok
            /\ probe.run_utc.utc > probe.now
            /\ LocalWall(probe.run_utc.utc) = day * SecondsPerDay + tod

\* C4 in a zone whose UTC offset never changes, as the default zone.
C4_InFixedOffsetZone == tz.before = tz.after => C4_NextOccurrenceOfWallClock

\* C5: rendering the parsed instant with pretty_time_local shows the hour, the
\* minute and the AM/PM marker of the time string.
C5_RoundTrip ==
    probe.op = "pretty" => probe.shown.clock = Str(probe.s.h, probe.s.m, probe.s.p)

\* C5 in a zone whose UTC offset never changes, as the default zone.
C5_InFixedOffsetZone == tz.before = tz.after => C5_RoundTrip

IsDue(i) == i \in Ids /\ store[i].status = "pending" /\ store[i].run_at <= now

\* C8: with the poll ticks firing, every pending record whose run_at has passed
\* leaves pending, also when more records are due than one batch holds; the
\* record whose send succeeded becomes sent with its message delivered.
C8_DueRecordLeavesPending ==
    /\ \A i \in 1..MaxRecords : IsDue(i) ~> (i \in Ids /\ store[i].status # "pending")
    /\ [][(poll.pc = "mark_sent" /\ poll' # poll)
            => /\ store'[Row.id].status = "sent"
               /\ outbox[Row.id] # <<>>
               /\ outbox[Row.id][Len(outbox[Row.id])].content = Content(Row.message)]_vars

\* A tick holds its batch while more records are due than the batch takes.
C8_Witness ==
    /\ poll.pc = "row"
    /\ Len(poll.rows) = SmallBatch
    /\ Cardinality({i \in Ids : IsDue(i)}) > SmallBatch

\* The failures of a dispatch that the except clause of process_due catches.
DispatchFailures == {"fetch_user", "download_bytes", "send"}

\* C11: when the resolution of the recipient, the attachment fetch or the send
\* fails for a record of a batch, the tick marks that record failed, the loop
\* task goes on (no exception leaves process_due), and the tick turns to the
\* next row of the batch, the rows after it untouched and in fetched order;
\* the row at hand is always the head of what is left of the batch.
C11_FailureIsolatedPerRecord ==
    /\ [][(poll.pc = "mark_failed" /\ poll.e \in DispatchFailures /\ poll' # poll)
            => /\ store'[Row.id].status = "failed"
               /\ \A i \in Ids : i # Row.id => store'[i] = store[i]
               /\ loop_running' = loop_running
               /\ IF Len(poll.rows) > 1
                  THEN poll'.pc = "row" /\ poll'.rows = Tail(poll.rows)
                  ELSE poll'.pc = "idle"]_vars
    /\ [][(poll.pc = "row" /\ poll' # poll)
            => /\ poll'.rows = poll.rows
               /\ poll'.pc \in {"mark_sent", "mark_failed"}]_vars

\* The send of the first row of a batch of two failed.
C11_Witness ==
    /\ poll.pc = "mark_failed"
    /\ poll.e = "send"
    /\ Len(poll.rows) > 1
    /\ poll.rows[1].run_at < poll.rows[2].run_at

\* C12: a record that is failed stays failed at every later step, no tick
\* fetches it again, and nothing more is sent or tried for it.
C12_FailedNeverRetried ==
    /\ [][\A i \in Ids :
            store[i].status = "failed"
              => /\ store'[i].status = "failed"
                 /\ outbox'[i] = outbox[i]
                 /\ (poll' # poll => \A j \in 1..Len(poll'.rows) : poll'.rows[j].id # i)]_vars
    /\ [](\A i \in Ids :
            store[i].status = "failed"
              => \A j \in 1..Len(poll.rows) : poll.rows[j].id # i)

\* A later tick holds a batch while a failed record is due, undelivered and
\* earlier than the row at hand.
C12_Witness ==
    /\ poll.pc = "row"
    /\ Len(poll.rows) = 1
    /\ \E i \in Ids : /\ store[i].status = "failed"
                      /\ store[i].run_at < Row.run_at
                      /\ outbox[i] = <<>>

\* C13: while there is no pool (db_pool is None) no step, a tick included,
\* reaches the Store or sends anything, and in every ordering of on_ready
\* events and ticks no tick fetches or holds a batch without a pool.
C13_NoStoreAccessWithoutPool ==
    /\ [][db_pool = None
            => /\ poll' = poll
               /\ store' = store
               /\ outbox' = outbox
               /\ faults' = faults]_vars
    /\ [](poll.pc # "idle" => db_pool # None)

\* A tick holds a batch while a second on_ready is still under way.
C13_Witness ==
    /\ poll.pc = "row"
    /\ Len(ready) > 1
    /\ ready[2] # "done"

\* C14: no step removes a record or changes the id, user_id, message,
\* attachment_url or run_at of one; the table only grows, by one row with the
\* next id; and the steps of list, get and instant send leave the table as it is.
C14_RecordsKeptAndOnlyStatusChanges ==
    [][/\ Len(store') \in {Len(store), Len(store) + 1}
       /\ \A i \in 1..Len(store') : store'[i].id = i
       /\ \A i \in Ids :
             /\ store'[i].user_id = store[i].user_id
             /\ store'[i].message = store[i].message
             /\ store'[i].attachment_url = store[i].attachment_url
             /\ store'[i].run_at = store[i].run_at
       /\ (reply'.cmd \in {"list", "get", "send"} => store' = store)]_vars

\* The table was listed with a record the poll loop has marked and a record
\* that was canceled in it.
C14_Witness ==
    /\ reply = Reply("list", "listing", None)
    /\ \E i, j \in Ids : /\ store[i].status \in {"sent", "failed"}
                         /\ store[j].status = "canceled"

\* C15: whatever the ticks and commands, and with Store calls that may raise,
\* the send of the poll loop succeeds at most once for a schedule id.
C15_AtMostOnceDelivery == \A i \in 1..MaxRecords : Len(outbox[i]) <= 1

\* C16: a record whose status is failed has had nothing delivered, also when
\* the status write after a successful send raised.
C16_FailedImpliesNotDelivered ==
    \A i \in Ids : store[i].status = "failed" => outbox[i] = <<>>

\* C17: whenever slash_cancel sends the "Canceled schedule" confirmation, its
\* conditional update has changed the record from pending to canceled at that
\* step; the confirmation is not sent when a tick changed the status between
\* the lookup and the update, so that the update touched no row.
C17_CancelConfirmationTruthful ==
    [][(cancel.pc = "update" /\ reply'.kind = "canceled")
         => /\ store[cancel.id].status = "pending"
            /\ store'[cancel.id].status = "canceled"]_vars

\* C18: the poll loop sends the message of a record at no instant earlier than
\* the run_at of that record.
C18_NoEarlyDelivery ==
    /\ [][\A i \in Ids : outbox'[i] # outbox[i] => store[i].run_at <= now]_vars
    /\ [](poll.pc # "idle" => \A j \in 1..Len(poll.rows) : poll.rows[j].run_at <= now)

\* A record was sent while a record created before it is pending for a later
\* instant and was left out of the batch.
C18_Witness ==
    /\ poll.pc = "mark_sent"
    /\ Len(poll.rows) = 1
    /\ outbox[Row.id] # <<>>
    /\ \E j \in Ids : /\ j < Row.id
                      /\ store[j].status = "pending"
                      /\ store[j].run_at > now

\* C19: after any number of on_ready events, a second one that begins while the
\* first awaits inside init_db included, at most one pool and at most one HTTP
\* session were ever created, and the scheduler loop (one task of the one
\* tasks.loop object) runs only once db_pool is set.
C19_StartupIdempotent ==
    /\ created.pools <= 1
    /\ created.sessions <= 1
    /\ (loop_running => db_pool # None)

\* The parts of C19 that hold of the code: one session, and no loop before the pool.
C19_SessionOnceAndLoopAfterPool ==
    /\ created.sessions <= 1
    /\ (loop_running => db_pool # None)
====
